---- MODULE Spec2Model ----
(***************************************************************************)
(* InventoryPacer: the ratio engine (utils/ratio_calculator.py), the       *)
(* persistence layer (utils/database_manager.py), the mailer               *)
(* (utils/mail_agent.py) and the daily run of ShopifyProductTracker        *)
(* (main.py).                                                              *)
(*                                                                         *)
(* Numbers.  Counts are naturals and target percentages are whole          *)
(* percents, as in config.json.  The engine's floats are kept as exact     *)
(* scaled integers:                                                        *)
(*   required_count, diff   in hundredths  (x100)                          *)
(*   'required'             in hundredths  (round(x, 2))                   *)
(*   'current_percent'      in tenths      (round(x, 1))                   *)
(*   tolerance              in whole percentage points                     *)
(* Python's round() is round-half-to-even; PyRound models it.  On every     *)
(* input of this model the doubles of the code give the same entries as    *)
(* the exact values (for other targets, such as 7 percent of 100, the      *)
(* double product can exceed the exact one).                               *)
(***************************************************************************)
EXTENDS Integers, Sequences, FiniteSets, TLC

(***************************************************************************)
(* Bounds                                                                  *)
(***************************************************************************)
MaxCount == 3
MaxPages == 3
MaxRequests == 4

(***************************************************************************)
(* Python dictionaries are functions; iteration follows KeyOrder.          *)
(***************************************************************************)
KeyOrder == <<"rings", "pendants", "earrings", "bracelets", "other">>

AllTypes == {KeyOrder[i] : i \in 1..Len(KeyOrder)}

EmptyDict == [k \in {} |-> 0]

\* dict.get(key, default)
Get(d, key, default) == IF key \in DOMAIN d THEN d[key] ELSE default

\* list(d.keys()) for a dict d
Keys(d) == SelectSeq(KeyOrder, LAMBDA k : k \in DOMAIN d)

RECURSIVE SumOver(_, _)
SumOver(d, ks) ==
    IF ks = <<>> THEN 0 ELSE d[Head(ks)] + SumOver(d, Tail(ks))

\* a slip that adds up the four product types only, as dashboard.py does for total_products
SumProductTypes(d) ==
    Get(d, "rings", 0) + Get(d, "pendants", 0) + Get(d, "earrings", 0) + Get(d, "bracelets", 0)

\* sum(d.values())
SumValues(d) == SumOver(d, Keys(d))

Abs(x) == IF x < 0 THEN 0 - x ELSE x

(***************************************************************************)
(* round(): num/den >= 0 rounded to an integer, ties to the even integer.  *)
(***************************************************************************)
RoundHalfUp(num, den) ==
    LET q == num \div den
        r == num % den
    IN  IF 2 * r >= den THEN q + 1 ELSE q

RoundDown(num, den) == num \div den

PyRound(num, den) ==
    LET q == num \div den
        r == num % den
    IN  IF 2 * r > den \/ (2 * r = den /\ q % 2 = 1) THEN q + 1 ELSE q

(***************************************************************************)
(* RatioCalculator                                                         *)
(***************************************************************************)
NoDataError == [error |-> "No products available for analysis"]

\* required_count = (target_percent / 100) * total_current, x100
RequiredCount100(target_percent, total_current) == target_percent * total_current

\* diff = required_count - current_counts.get(product_type, 0), x100
Diff100(target_percent, total_current, current) ==
    RequiredCount100(target_percent, total_current) - 100 * current

KeepZeroDiff(diff100) == diff100 >= 0

\* the guard "if diff > 0"
KeepDiff(diff100) == diff100 > 0

\* current_percentages: only the product types of current_counts that are targets
CurrentPercentages(target_ratios_, current_counts, total_current) ==
    [t \in (DOMAIN current_counts) \cap (DOMAIN target_ratios_) |->
        [num |-> 100 * current_counts[t], den |-> total_current]]

\* round(current_percentages.get(product_type, 0), 1), in tenths
CurrentPercent10(current_percentages, product_type) ==
    IF product_type \in DOMAIN current_percentages
    THEN PyRound(10 * current_percentages[product_type].num,
                 current_percentages[product_type].den)
    ELSE 0

Entry(target_ratios_, current_counts, total_current, product_type) ==
    LET target_percent == target_ratios_[product_type]
        current == Get(current_counts, product_type, 0)
    IN  [current |-> current,
         required |-> PyRound(100 * RequiredCount100(target_percent, total_current), 100),
         next_upload_count |-> PyRound(Diff100(target_percent, total_current, current), 100),
         current_percent |-> CurrentPercent10(
             CurrentPercentages(target_ratios_, current_counts, total_current), product_type),
         target_percent |-> target_percent]

\* a slip that answers an empty mapping with an empty success: "if not current_counts: return {}"
EmptyInsteadOfError(target_ratios_, current_counts) ==
    LET total_current == SumValues(current_counts)
    IN  IF DOMAIN current_counts = {}
        THEN EmptyDict
        ELSE IF total_current = 0
        THEN NoDataError
        ELSE [t \in {p \in DOMAIN target_ratios_ :
                        KeepDiff(Diff100(target_ratios_[p], total_current,
                                         Get(current_counts, p, 0)))} |->
                 Entry(target_ratios_, current_counts, total_current, t)]

\* a slip that skips the target categories current_counts has no key for
SkipMissingTypes(target_ratios_, current_counts) ==
    LET total_current == SumValues(current_counts)
    IN  IF total_current = 0
        THEN NoDataError
        ELSE [t \in {p \in (DOMAIN target_ratios_) \cap (DOMAIN current_counts) :
                        KeepDiff(Diff100(target_ratios_[p], total_current,
                                         Get(current_counts, p, 0)))} |->
                 Entry(target_ratios_, current_counts, total_current, t)]

calculate_required_uploads(target_ratios_, current_counts) ==
    LET total_current == SumValues(current_counts)
    IN  IF total_current = 0
        THEN NoDataError
        ELSE [t \in {p \in DOMAIN target_ratios_ :
                        KeepDiff(Diff100(target_ratios_[p], total_current,
                                         Get(current_counts, p, 0)))} |->
                 Entry(target_ratios_, current_counts, total_current, t)]

\* one recommendation line; need_total is the '{:.0f}' rendering of 'required'
Recommendation(product_type, data) ==
    [upload_count |-> data.next_upload_count,
     product_type |-> product_type,
     currently |-> data.current,
     need_total |-> PyRound(data.required, 100)]

RECURSIVE RecommendLoop(_, _)
RecommendLoop(analysis_, ks) ==
    IF ks = <<>> THEN <<>>
    ELSE LET data == analysis_[Head(ks)]
             rest == RecommendLoop(analysis_, Tail(ks))
         IN  IF Get(data, "next_upload_count", 0) > 0
             THEN <<Recommendation(Head(ks), data)>> \o rest
             ELSE rest

get_recommendations(analysis_) == RecommendLoop(analysis_, Keys(analysis_))

\* abs(data['current_percent'] - data['target_percent']) > tolerance
OutOfTolerance(data, tolerance_) ==
    Abs(data.current_percent - 10 * data.target_percent) > 10 * tolerance_

RECURSIVE BalancedLoop(_, _, _)
BalancedLoop(analysis_, ks, tolerance_) ==
    IF ks = <<>> THEN TRUE
    ELSE IF OutOfTolerance(analysis_[Head(ks)], tolerance_) THEN FALSE
    ELSE BalancedLoop(analysis_, Tail(ks), tolerance_)

FirstEntryOnly(analysis_, tolerance_) ==
    LET ks == Keys(analysis_)
    IN  IF ks = <<>> THEN TRUE ELSE ~OutOfTolerance(analysis_[Head(ks)], tolerance_)

is_ratio_balanced(analysis_, tolerance_) ==
    BalancedLoop(analysis_, Keys(analysis_), tolerance_)

(***************************************************************************)
(* The catalog source (Shopify REST API, main.py get_products)             *)
(***************************************************************************)
Product(product_type, status, published_at) ==
    [product_type |-> product_type, status |-> status, published_at |-> published_at]

Ring == Product("Rings", "active", "set")
Pendant == Product(" Pendants ", "active", "set")
DraftEarring == Product("Earrings", "draft", "None")
Bracelet == Product("Bracelets", "active", "set")
Necklace == Product("Necklace", "active", "set")

\* the pages the catalog source can serve
ServerPages == { <<>>, <<Ring, Ring>>, <<Ring, Pendant>>, <<DraftEarring, Necklace, Bracelet>> }

RECURSIVE SeqsUpTo(_, _)
SeqsUpTo(S, n) ==
    IF n = 0 THEN {<<>>}
    ELSE LET shorter == SeqsUpTo(S, n - 1)
         IN  shorter \cup {Append(q, x) : q \in shorter, x \in S}

Catalogs == SeqsUpTo(ServerPages, MaxPages) \ {<<>>}

Modes == {"BY_DATE", "ACTIVE_ONLY", "ACTIVE_BY_DATE"}

\* the Link header of page i: '<url>; rel="previous", <url>; rel="next"'
LinkHeader(catalog_, with_previous_, i) ==
    (IF with_previous_ /\ i > 1 THEN <<[url |-> i - 1, rel |-> "previous"]>> ELSE <<>>)
    \o (IF i < Len(catalog_) THEN <<[url |-> i + 1, rel |-> "next"]>> ELSE <<>>)

\* 'link' in response.headers and 'rel="next"' in response.headers['link']
HasRelNext(link) == link # <<>> /\ \E j \in 1..Len(link) : link[j].rel = "next"

\* response.headers['link'].split(';')[0].strip('<>')
FirstUrl(link) == link[1].url

\* status == "active" or published_at is not None
IsActive(p) == p.status = "active" \/ p.published_at # "None"

\* get_products' return value once the pagination loop has ended
FetchedProducts(mode_, all_products_) ==
    IF mode_ \in {"ACTIVE_ONLY", "ACTIVE_BY_DATE"}
    THEN SelectSeq(all_products_, IsActive)
    ELSE all_products_

\* the products of all the pages of the catalog, in page order
RECURSIVE CatalogProducts(_)
CatalogProducts(catalog_) ==
    IF catalog_ = <<>> THEN <<>> ELSE Head(catalog_) \o CatalogProducts(Tail(catalog_))

(***************************************************************************)
(* summarize_and_export: counting by product type                          *)
(***************************************************************************)
ProductTypes == {"pendants", "rings", "earrings", "bracelets"}

\* p.get("product_type", "").lower().strip()
Normalize(label) ==
    CASE label = "Rings" -> "rings"
      [] label = " Pendants " -> "pendants"
      [] label = "Earrings" -> "earrings"
      [] label = "Bracelets" -> "bracelets"
      [] label = "Necklace" -> "necklace"
      [] OTHER -> label

RECURSIVE CountProducts(_, _)
CountProducts(counts_, products_) ==
    IF products_ = <<>> THEN counts_
    ELSE LET ptype == Normalize(Head(products_).product_type)
         IN  CountProducts(
                 IF ptype \in DOMAIN counts_
                 THEN [counts_ EXCEPT ![ptype] = @ + 1]
                 ELSE counts_,
                 Tail(products_))

ZeroCounts == [t \in ProductTypes |-> 0]

(***************************************************************************)
(* DatabaseManager: the table "inventorypacer" is a sequence of rows,      *)
(* a row's id is its position.  A lookup result is <<>> (None) or <<row>>. *)
(***************************************************************************)
Row(id, date, counts_) ==
    [id |-> id, Date |-> date,
     rings |-> counts_["rings"], pendants |-> counts_["pendants"],
     earrings |-> counts_["earrings"], bracelets |-> counts_["bracelets"]]

\* what a request that changes the table can do: succeed, or raise after or before it took effect
WriteFaults ==
    {[outcome |-> "ok", applied |-> TRUE]}
    \cup {[outcome |-> o, applied |-> a] : o \in {"json_error", "error"}, a \in BOOLEAN}

\* check_date_exists: the first row of the date, None when there is none or the query raises
check_date_exists(store_, date, query_fails) ==
    LET found == SelectSeq(store_, LAMBDA r : r.Date = date)
    IN  IF query_fails \/ found = <<>> THEN <<>> ELSE <<Head(found)>>

\* insert_jewelry_data: True on success, and True as well when the request raises
insert_jewelry_data(store_, jewelry_data, fault) ==
    [success |-> TRUE,
     store |-> IF fault.applied
               THEN Append(store_, [jewelry_data EXCEPT !.id = Len(store_) + 1])
               ELSE store_]

\* update_jewelry_data: True on success and on a JSONDecodeError, False on any other exception
update_jewelry_data(store_, record_id, update_data, fault) ==
    [success |-> fault.outcome \in {"ok", "json_error"},
     store |-> IF fault.applied
               THEN [i \in 1..Len(store_) |->
                        IF store_[i].id = record_id
                        THEN [f \in DOMAIN store_[i] |->
                                 IF f \in DOMAIN update_data THEN update_data[f] ELSE store_[i][f]]
                        ELSE store_[i]]
               ELSE store_]

\* the fields whose stored value differs from the new one (str() of both, on integers)
UpdateData(existing_record, counts_) ==
    [k \in {key \in DOMAIN counts_ : existing_record[key] # counts_[key]} |-> counts_[k]]

\* upsert_product_counts: insert when the date is absent, update the differing fields otherwise
upsert_product_counts(store_, date, counts_, query_fails, fault) ==
    LET existing == check_date_exists(store_, date, query_fails)
    IN  IF existing # <<>>
        THEN LET update_data == UpdateData(existing[1], counts_)
             IN  IF DOMAIN update_data # {}
                 THEN update_jewelry_data(store_, existing[1].id, update_data, fault)
                      @@ [kind |-> "update", outcome |-> fault.outcome]
                 ELSE [success |-> TRUE, store |-> store_, kind |-> "unchanged", outcome |-> "none"]
        ELSE insert_jewelry_data(store_, Row(0, date, counts_), fault)
             @@ [kind |-> "insert", outcome |-> fault.outcome]

(***************************************************************************)
(* _check_ratio_and_alert: the rows of the summary table                   *)
(***************************************************************************)
\* a row carries the values of its columns, before they are rendered as text
SummaryRow(product_type, data, diff_value) ==
    [product_type |-> product_type,
     current_count |-> data.current,
     current_percent |-> data.current_percent,
     target_percent |-> data.target_percent,
     required_count |-> data.required,
     next_upload_count |-> diff_value]

RECURSIVE SummaryLoop(_, _)
SummaryLoop(analysis_, ks) ==
    IF ks = <<>> THEN <<>>
    ELSE LET data == analysis_[Head(ks)]
             diff_value == Get(data, "adjusted_difference", data.next_upload_count)
             rest == SummaryLoop(analysis_, Tail(ks))
         IN  IF diff_value > 0
             THEN <<SummaryRow(Head(ks), data, diff_value)>> \o rest
             ELSE rest

SummaryData(analysis_) == SummaryLoop(analysis_, Keys(analysis_))

(***************************************************************************)
(* The dashboard (dashboard.py): reads the table and shows one date.       *)
(* The order in which the rows come back is not kept, the first row of a   *)
(* date is the first one of the table.                                     *)
(***************************************************************************)
\* get_table_data: the rows of a date, or all rows for date "None"; empty when the query raises
get_table_data(store_, date, query_fails) ==
    IF query_fails THEN <<>>
    ELSE IF date = "None" THEN store_
    ELSE SelectSeq(store_, LAMBDA r : r.Date = date)

\* all_data['date'].unique()
AvailableDates(all_data) == {all_data[i].Date : i \in 1..Len(all_data)}

\* the target ratios written into get_ratio_analysis
DashboardTargetRatios == [rings |-> 40, pendants |-> 25, earrings |-> 20, bracelets |-> 15]

\* data_df[['rings', 'pendants', 'earrings', 'bracelets']].sum(axis=1), on the first row
TotalProducts(row) == row.rings + row.pendants + row.earrings + row.bracelets

\* str.title() of a product type
Title(product_type) ==
    CASE product_type = "rings" -> "Rings"
      [] product_type = "pendants" -> "Pendants"
      [] product_type = "earrings" -> "Earrings"
      [] product_type = "bracelets" -> "Bracelets"
      [] OTHER -> product_type

\* one row of the ratio table.  'Current %' is in tenths.  'Target Count' and 'Difference'
\* are kept in hundredths, before round(x, 1): the differences are multiples of 0.05, and
\* on the totals of this model the rounded value has the sign of the difference.
RatioRow(product_type, target_percent, current_count, total_products) ==
    LET difference == target_percent * total_products - 100 * current_count
    IN  [product_type |-> Title(product_type),
         current_count |-> current_count,
         current_percent |-> IF total_products > 0
                             THEN PyRound(1000 * current_count, total_products)
                             ELSE 0,
         target_percent |-> target_percent,
         target_count |-> target_percent * total_products,
         difference |-> difference,
         status |-> IF difference < 0 THEN "Above Target" ELSE "Below Target"]

RECURSIVE RatioRows(_, _, _)
RatioRows(row, total_products, ks) ==
    IF ks = <<>> THEN <<>>
    ELSE <<RatioRow(Head(ks), DashboardTargetRatios[Head(ks)], row[Head(ks)], total_products)>>
         \o RatioRows(row, total_products, Tail(ks))

\* get_ratio_analysis(data_df) for a data_df that is not empty
get_ratio_analysis(row) == RatioRows(row, TotalProducts(row), Keys(DashboardTargetRatios))

\* the recommendation lines of main(): upload more, or above target
RECURSIVE DashboardRecommendations(_)
DashboardRecommendations(ratio_df) ==
    IF ratio_df = <<>> THEN <<>>
    ELSE LET row == Head(ratio_df)
             rest == DashboardRecommendations(Tail(ratio_df))
         IN  IF row.difference > 0
             THEN <<[kind |-> "upload", product_type |-> row.product_type,
                     currently |-> row.current_count]>> \o rest
             ELSE IF row.difference < 0
             THEN <<[kind |-> "above", product_type |-> row.product_type,
                     currently |-> row.current_count]>> \o rest
             ELSE rest

DashboardClosed ==
    [status |-> "closed", selected_date |-> "None", total_products |-> 0,
     snapshot |-> ZeroCounts, ratio_df |-> <<>>, recommendations |-> <<>>]

DashboardNoData(selected_date) ==
    [status |-> "no_data", selected_date |-> selected_date, total_products |-> 0,
     snapshot |-> ZeroCounts, ratio_df |-> <<>>, recommendations |-> <<>>]

\* what main() shows for the first row of the selected date
DashboardShown(selected_date, row) ==
    LET ratio_df == get_ratio_analysis(row)
    IN  [status |-> "shown", selected_date |-> selected_date,
         total_products |-> TotalProducts(row),
         snapshot |-> [t \in ProductTypes |-> row[t]],
         ratio_df |-> ratio_df,
         recommendations |-> DashboardRecommendations(ratio_df)]

(***************************************************************************)
(* Inputs                                                                  *)
(***************************************************************************)
DefaultTargetRatios == [rings |-> 40, pendants |-> 25, earrings |-> 20, bracelets |-> 15]

\* config.json TARGET_RATIOS: the default, a two-category target, and one that sums to 110
TargetConfigs ==
    { DefaultTargetRatios,
      [rings |-> 50, pendants |-> 50],
      [rings |-> 60, pendants |-> 30, earrings |-> 20] }

DefaultTolerance == 5

Tolerances == {0, DefaultTolerance}

CountDomains == { AllTypes, AllTypes \ {"other"}, {"rings", "pendants"}, {} }

Snapshot(r, p, e, b) == [rings |-> r, pendants |-> p, earrings |-> e, bracelets |-> b]

Scenarios ==
    { Snapshot(40, 25, 20, 15), Snapshot(10, 10, 10, 10),
      Snapshot(38, 26, 21, 15), Snapshot(50, 21, 16, 13) }

CountInputs == (UNION {[D -> 0..MaxCount] : D \in CountDomains}) \cup Scenarios

Today == "04-11-2026"
Yesterday == "03-11-2026"

\* the table before the run: empty, yesterday's row only, or a row of today from an earlier run
InitialStores ==
    { <<>>,
      <<Row(1, Yesterday, Snapshot(2, 1, 0, 0))>>,
      <<Row(1, Yesterday, Snapshot(2, 1, 0, 0)), Row(2, Today, ZeroCounts)>> }

(***************************************************************************)
(* State                                                                   *)
(***************************************************************************)
VARIABLES
    pc,               \* position of the run (or of the engine exercise)
    mode,             \* config FETCH_MODE
    target_ratios,    \* config TARGET_RATIOS
    tolerance,        \* tolerance handed to is_ratio_balanced
    catalog,          \* the pages held by the catalog source
    with_previous,    \* whether the source lists rel="previous" links
    base_url,         \* page the next request asks for
    requests,         \* requests sent so far
    all_products,     \* get_products: products collected so far
    products,         \* get_products' return value
    counts,           \* counts by product type
    store,            \* the table "inventorypacer"
    success,          \* result of upsert_product_counts
    write_kind,       \* "none", "insert", "update" or "unchanged"
    write_outcome,    \* outcome of the insert or update request
    analysis,         \* result of calculate_required_uploads
    is_balanced,      \* result of is_ratio_balanced
    recommendations,  \* result of get_recommendations
    summary_data,     \* rows of the summary table
    alerts,           \* calls of Mailer.send_alert
    calls,            \* the operations invoked so far
    dashboard,        \* what the dashboard shows
    error             \* exception that left the run, "none" otherwise

vars == <<pc, mode, target_ratios, tolerance, catalog, with_previous, base_url, requests,
          all_products, products, counts, store, success, write_kind, write_outcome,
          analysis, is_balanced, recommendations, summary_data, alerts, calls, dashboard,
          error>>

fetchVars == <<catalog, with_previous, base_url, requests, all_products, products>>
dbVars == <<store, success, write_kind, write_outcome>>
ratioVars == <<analysis, is_balanced, recommendations, summary_data, alerts>>
configVars == <<mode, target_ratios, tolerance>>

(***************************************************************************)
(* The daily run: ShopifyProductTracker(), get_products(),                 *)
(* summarize_and_export(products)                                          *)
(***************************************************************************)
Init ==
    /\ pc = "get_products"
    /\ mode \in Modes
    /\ target_ratios \in TargetConfigs
    /\ tolerance = DefaultTolerance
    /\ catalog \in Catalogs
    /\ with_previous \in BOOLEAN
    /\ base_url = 1
    /\ requests = 0
    /\ all_products = <<>>
    /\ products = <<>>
    /\ counts = ZeroCounts
    /\ store \in InitialStores
    /\ success = FALSE
    /\ write_kind = "none"
    /\ write_outcome = "none"
    /\ analysis = EmptyDict
    /\ is_balanced = FALSE
    /\ recommendations = <<>>
    /\ summary_data = <<>>
    /\ alerts = <<>>
    /\ calls = {}
    /\ dashboard = DashboardClosed
    /\ error = "none"

\* one pass of the pagination loop with a 200 response
GetProductsPage ==
    /\ pc = "get_products"
    /\ requests < MaxRequests
    /\ LET link == LinkHeader(catalog, with_previous, base_url)
           collected == all_products \o catalog[base_url]
       IN  /\ requests' = requests + 1
           /\ all_products' = collected
           /\ IF HasRelNext(link)
              THEN /\ base_url' = FirstUrl(link)
                   /\ UNCHANGED <<pc, products>>
              ELSE /\ products' = FetchedProducts(mode, collected)
                   /\ pc' = "summarize"
                   /\ UNCHANGED base_url
    /\ calls' = calls \cup {"get_products"}
    /\ UNCHANGED <<configVars, dashboard, catalog, with_previous, counts, dbVars, ratioVars, error>>

\* response.status_code == 401
GetProductsUnauthorized ==
    /\ pc = "get_products"
    /\ requests < MaxRequests
    /\ requests' = requests + 1
    /\ pc' = "failed"
    /\ error' = "PermissionError"
    /\ calls' = calls \cup {"get_products"}
    /\ UNCHANGED <<configVars, dashboard, catalog, with_previous, base_url, all_products, products,
                   counts, dbVars, ratioVars>>

\* a slip that logs the HTTP error and goes on with the products collected so far
GetProductsHttpErrorLogged ==
    /\ pc = "get_products"
    /\ requests < MaxRequests
    /\ requests' = requests + 1
    /\ products' = FetchedProducts(mode, all_products)
    /\ pc' = "summarize"
    /\ error' = "HTTPError"
    /\ calls' = calls \cup {"get_products"}
    /\ UNCHANGED <<configVars, dashboard, catalog, with_previous, base_url, all_products,
                   counts, dbVars, ratioVars>>

\* response.raise_for_status() raises
GetProductsHttpError ==
    /\ pc = "get_products"
    /\ requests < MaxRequests
    /\ requests' = requests + 1
    /\ pc' = "failed"
    /\ error' = "HTTPError"
    /\ calls' = calls \cup {"get_products"}
    /\ UNCHANGED <<configVars, dashboard, catalog, with_previous, base_url, all_products, products,
                   counts, dbVars, ratioVars>>

\* summarize_and_export up to the breakpoint: count the products by type
Summarize ==
    /\ pc = "summarize"
    /\ counts' = CountProducts(ZeroCounts, products)
    /\ pc' = "breakpoint"
    /\ calls' = calls \cup {"summarize_and_export"}
    /\ UNCHANGED <<configVars, dashboard, fetchVars, dbVars, ratioVars, error>>

\* pdb.set_trace(): the operator continues
DebuggerContinue ==
    /\ pc = "breakpoint"
    /\ pc' = "upsert"
    /\ UNCHANGED <<configVars, dashboard, fetchVars, counts, dbVars, ratioVars, calls, error>>

\* pdb.set_trace(): the operator quits, or there is no terminal
DebuggerQuit ==
    /\ pc = "breakpoint"
    /\ pc' = "failed"
    /\ error' = "BdbQuit"
    /\ UNCHANGED <<configVars, dashboard, fetchVars, counts, dbVars, ratioVars, calls>>

\* db_manager.upsert_product_counts(self.current_date, counts) and the test of its result
Upsert ==
    /\ pc = "upsert"
    /\ \E query_fails \in BOOLEAN, fault \in WriteFaults :
          LET r == upsert_product_counts(store, Today, counts, query_fails, fault)
          IN  /\ store' = r.store
              /\ success' = r.success
              /\ write_kind' = r.kind
              /\ write_outcome' = r.outcome
              /\ pc' = IF r.success THEN "export" ELSE "done"
    /\ calls' = calls \cup {"upsert_product_counts"}
    /\ UNCHANGED <<configVars, dashboard, fetchVars, counts, ratioVars, error>>

\* df_row.to_excel(excel_path)
ExportExcel ==
    /\ pc = "export"
    /\ pc' = "check_ratio"
    /\ UNCHANGED <<configVars, dashboard, fetchVars, counts, dbVars, ratioVars, calls, error>>

\* os.makedirs or to_excel raises
ExportFails ==
    /\ pc = "export"
    /\ pc' = "failed"
    /\ error' = "OSError"
    /\ UNCHANGED <<configVars, dashboard, fetchVars, counts, dbVars, ratioVars, calls>>

\* a slip that hands the analysis to the balance check without the two tests
CheckRatioUnguarded ==
    /\ pc = "check_ratio"
    /\ analysis' = calculate_required_uploads(target_ratios, counts)
    /\ calls' = calls \cup {"calculate_required_uploads"}
    /\ pc' = "is_balanced"
    /\ UNCHANGED <<configVars, dashboard, fetchVars, counts, dbVars, is_balanced, recommendations,
                   summary_data, alerts, error>>

\* _check_ratio_and_alert: the zero total short-circuit, then the analysis
CheckRatio ==
    /\ pc = "check_ratio"
    /\ IF SumValues(counts) = 0
       THEN /\ pc' = "done"
            /\ UNCHANGED <<analysis, calls>>
       ELSE /\ analysis' = calculate_required_uploads(target_ratios, counts)
            /\ calls' = calls \cup {"calculate_required_uploads"}
            /\ pc' = IF "error" \in DOMAIN analysis' THEN "done" ELSE "is_balanced"
    /\ UNCHANGED <<configVars, dashboard, fetchVars, counts, dbVars, is_balanced, recommendations,
                   summary_data, alerts, error>>

\* is_balanced = self.ratio_calculator.is_ratio_balanced(analysis)
CheckBalance ==
    /\ pc = "is_balanced"
    /\ is_balanced' = is_ratio_balanced(analysis, tolerance)
    /\ calls' = calls \cup {"is_ratio_balanced"}
    /\ pc' = IF is_balanced' THEN "done" ELSE "recommend"
    /\ UNCHANGED <<configVars, dashboard, fetchVars, counts, dbVars, analysis, recommendations,
                   summary_data, alerts, error>>

\* the imbalanced branch up to the test of summary_data
PrepareAlert ==
    /\ pc = "recommend"
    /\ recommendations' = get_recommendations(analysis)
    /\ summary_data' = SummaryData(analysis)
    /\ calls' = calls \cup {"get_recommendations"}
    /\ pc' = IF summary_data' = <<>> THEN "done" ELSE "send_alert"
    /\ UNCHANGED <<configVars, dashboard, fetchVars, counts, dbVars, analysis, is_balanced, alerts, error>>

\* self.mailer.send_alert(subject, body, df_summary); an SMTP failure is logged, not raised
SendAlert ==
    /\ pc = "send_alert"
    /\ \E delivered \in BOOLEAN :
          alerts' = Append(alerts,
              [subject |-> "Shopify Ratio Alert",
               body |-> [total_products |-> SumValues(counts),
                         recommendations |-> recommendations],
               table |-> summary_data,
               delivered |-> delivered])
    /\ calls' = calls \cup {"send_alert"}
    /\ pc' = "done"
    /\ UNCHANGED <<configVars, dashboard, fetchVars, counts, dbVars, analysis, is_balanced,
                   recommendations, summary_data, error>>

\* main() of dashboard.py, a process of its own: all the rows, the date the user selects,
\* the rows of that date, the ratio table and the recommendations.  It is opened once,
\* when the run has ended: the table changes in Upsert only, and a run whose first request
\* fails leaves it as it was, so every table a view can meet is met.
DashboardView ==
    /\ pc \in {"done", "failed"}
    /\ dashboard.status = "closed"
    /\ \E all_fails \in BOOLEAN :
          LET all_data == get_table_data(store, "None", all_fails)
          IN  IF all_data = <<>>
              THEN dashboard' = DashboardNoData("None")
              ELSE \E selected_date \in AvailableDates(all_data), date_fails \in BOOLEAN :
                      LET data_df == get_table_data(store, selected_date, date_fails)
                      IN  dashboard' = IF data_df = <<>>
                                       THEN DashboardNoData(selected_date)
                                       ELSE DashboardShown(selected_date, Head(data_df))
    /\ UNCHANGED <<pc, configVars, fetchVars, counts, dbVars, ratioVars, calls, error>>

Next ==
    \/ GetProductsPage
    \/ GetProductsUnauthorized
    \/ GetProductsHttpError
    \/ Summarize
    \/ DebuggerContinue
    \/ DebuggerQuit
    \/ Upsert
    \/ ExportExcel
    \/ ExportFails
    \/ CheckRatio
    \/ CheckBalance
    \/ PrepareAlert
    \/ SendAlert
    \/ DashboardView

Spec == Init /\ [][Next]_vars

(***************************************************************************)
(* The engine on its own: RatioCalculator(target_ratios) applied to any    *)
(* count mapping                                                           *)
(***************************************************************************)
InitEngine ==
    /\ pc = "engine"
    /\ mode = "BY_DATE"
    /\ target_ratios \in TargetConfigs
    /\ tolerance \in Tolerances
    /\ catalog = <<>>
    /\ with_previous = FALSE
    /\ base_url = 1
    /\ requests = 0
    /\ all_products = <<>>
    /\ products = <<>>
    /\ counts \in CountInputs
    /\ store = <<>>
    /\ success = FALSE
    /\ write_kind = "none"
    /\ write_outcome = "none"
    /\ analysis = EmptyDict
    /\ is_balanced = FALSE
    /\ recommendations = <<>>
    /\ summary_data = <<>>
    /\ alerts = <<>>
    /\ calls = {}
    /\ dashboard = DashboardClosed
    /\ error = "none"

EngineCalculate ==
    /\ pc = "engine"
    /\ analysis' = calculate_required_uploads(target_ratios, counts)
    /\ calls' = calls \cup {"calculate_required_uploads"}
    /\ pc' = "engine_analysed"
    /\ UNCHANGED <<configVars, dashboard, fetchVars, counts, dbVars, is_balanced, recommendations,
                   summary_data, alerts, error>>

\* the caller has excluded the no-data error
EngineIsBalanced ==
    /\ pc = "engine_analysed"
    /\ "error" \notin DOMAIN analysis
    /\ is_balanced' = is_ratio_balanced(analysis, tolerance)
    /\ calls' = calls \cup {"is_ratio_balanced"}
    /\ pc' = "engine_balanced"
    /\ UNCHANGED <<configVars, dashboard, fetchVars, counts, dbVars, analysis, recommendations,
                   summary_data, alerts, error>>

EngineRecommend ==
    /\ pc = "engine_balanced"
    /\ recommendations' = get_recommendations(analysis)
    /\ calls' = calls \cup {"get_recommendations"}
    /\ pc' = "engine_done"
    /\ UNCHANGED <<configVars, dashboard, fetchVars, counts, dbVars, analysis, is_balanced,
                   summary_data, alerts, error>>

NextEngine ==
    \/ EngineCalculate
    \/ EngineIsBalanced
    \/ EngineRecommend

SpecEngine == InitEngine /\ [][NextEngine]_vars

(***************************************************************************)
(* Properties of the engine (SpecEngine)                                   *)
(***************************************************************************)
Analysed == pc \in {"engine_analysed", "engine_balanced", "engine_done"}

BalanceChecked == pc \in {"engine_balanced", "engine_done"}

\* C1: with total > 0, every returned entry has next_upload_count >= 1 and belongs to a
\* target category whose unrounded required count is strictly greater than its current count.
C1_ShortfallsOnly ==
    (Analysed /\ SumValues(counts) > 0) =>
        \A c \in DOMAIN analysis :
            /\ analysis[c].next_upload_count >= 1
            /\ c \in DOMAIN target_ratios
            /\ target_ratios[c] * SumValues(counts) > 100 * Get(counts, c, 0)

\* C2: whenever is_ratio_balanced returns true on the result of calculate_required_uploads
\* (total > 0), every target category's observed percentage of the total is within the
\* tolerance of its target percentage, categories above target included.
C2_BalancedMeansAllWithinTolerance ==
    (BalanceChecked /\ is_balanced) =>
        \A t \in DOMAIN target_ratios :
            Abs(100 * Get(counts, t, 0) - target_ratios[t] * SumValues(counts))
                <= tolerance * SumValues(counts)

\* C5 as stated: a category absent from target_ratios gets no entry, and two count mappings
\* that agree on every target category produce the same result whatever the other counts are.
C5_NonTargetCountsIgnored ==
    (pc = "engine_analysed") =>
        /\ "error" \notin DOMAIN analysis => DOMAIN analysis \subseteq DOMAIN target_ratios
        /\ \A other \in CountInputs :
              (\A t \in DOMAIN target_ratios : Get(other, t, 0) = Get(counts, t, 0))
                  => calculate_required_uploads(target_ratios, other) = analysis

\* C5 amended: a category absent from target_ratios gets no entry, and its count reaches the
\* result through the total only: two count mappings that agree on every target category
\* and have the same total produce the same result.
C5_NonTargetCountsOnlyThroughTotal ==
    (pc = "engine_analysed") =>
        LET total(d) == Get(d, "rings", 0) + Get(d, "pendants", 0) + Get(d, "earrings", 0)
                        + Get(d, "bracelets", 0) + Get(d, "other", 0)
        IN  /\ "error" \notin DOMAIN analysis => DOMAIN analysis \subseteq DOMAIN target_ratios
            /\ \A other \in CountInputs :
                  ( /\ \A t \in DOMAIN target_ratios : Get(other, t, 0) = Get(counts, t, 0)
                    /\ total(other) = total(counts) )
                      => calculate_required_uploads(target_ratios, other) = analysis

\* C5 witness: a non-target category holds products, entries were returned, and another
\* mapping with the same target counts and total spreads the other products differently.
C5_Witness ==
    /\ pc = "engine_analysed"
    /\ "other" \in DOMAIN counts
    /\ "other" \notin DOMAIN target_ratios
    /\ counts["other"] > 0
    /\ "error" \notin DOMAIN analysis
    /\ DOMAIN analysis # {}
    /\ \E other \in CountInputs :
          /\ other # counts
          /\ \A t \in DOMAIN target_ratios : Get(other, t, 0) = Get(counts, t, 0)
          /\ SumValues(other) = SumValues(counts)

\* C6 as stated: next_upload_count rounds the shortfall with ties away from zero: a
\* shortfall of exactly k + 0.5 gives k + 1.
C6_TiesAwayFromZero ==
    (Analysed /\ "error" \notin DOMAIN analysis) =>
        \A c \in DOMAIN analysis :
            LET diff100 == target_ratios[c] * SumValues(counts) - 100 * Get(counts, c, 0)
            IN  diff100 % 100 = 50 => analysis[c].next_upload_count = (diff100 \div 100) + 1

\* C6 amended: next_upload_count is the shortfall rounded to the nearest integer with ties
\* rounded to the even integer: a shortfall of exactly k + 0.5 gives k when k is even and
\* k + 1 when k is odd.
C6_TiesToEven ==
    (Analysed /\ "error" \notin DOMAIN analysis) =>
        \A c \in DOMAIN analysis :
            LET diff100 == target_ratios[c] * SumValues(counts) - 100 * Get(counts, c, 0)
                k == diff100 \div 100
                n == analysis[c].next_upload_count
            IN  /\ Abs(100 * n - diff100) <= 50
                /\ diff100 % 100 = 50 => n = (IF k % 2 = 0 THEN k ELSE k + 1)

\* C6 witness: an entry whose shortfall is exactly 2.5
C6_Witness ==
    /\ Analysed
    /\ "error" \notin DOMAIN analysis
    /\ \E c \in DOMAIN analysis :
          target_ratios[c] * SumValues(counts) - 100 * Get(counts, c, 0) = 250

\* C7: with total > 0, no target category whose required count minus current count is <= 0
\* is a key of the result.
C7_SurplusOmission ==
    (Analysed /\ SumValues(counts) > 0) =>
        \A t \in DOMAIN target_ratios :
            target_ratios[t] * SumValues(counts) - 100 * Get(counts, t, 0) <= 0
                => t \notin DOMAIN analysis

\* C7 witness: one target category exactly at target, one above, and one below that is returned
C7_Witness ==
    /\ Analysed
    /\ SumValues(counts) > 0
    /\ \E t \in DOMAIN target_ratios :
          target_ratios[t] * SumValues(counts) = 100 * Get(counts, t, 0)
    /\ \E t \in DOMAIN target_ratios :
          target_ratios[t] * SumValues(counts) < 100 * Get(counts, t, 0)
    /\ DOMAIN analysis # {}

\* C8: with total > 0, every target category whose required count (target_percent/100 *
\* total) exceeds its current count is in the result, with current equal to its count and
\* next_upload_count the shortfall rounded to the nearest integer; counts 10/10/10/10 against
\* 40/25/20/15 give exactly one entry, rings, with upload count 6, and 38/26/21/15 give
\* exactly one entry, rings, with upload count 2.
C8_ShortfallsReported ==
    (Analysed /\ SumValues(counts) > 0) =>
        /\ \A t \in DOMAIN target_ratios :
              LET diff100 == target_ratios[t] * SumValues(counts) - 100 * Get(counts, t, 0)
              IN  diff100 > 0 =>
                      /\ t \in DOMAIN analysis
                      /\ analysis[t].current = Get(counts, t, 0)
                      /\ Abs(100 * analysis[t].next_upload_count - diff100) <= 50
        /\ (counts = Snapshot(10, 10, 10, 10) /\ target_ratios = DefaultTargetRatios) =>
              (DOMAIN analysis = {"rings"} /\ analysis["rings"].next_upload_count = 6)
        /\ (counts = Snapshot(38, 26, 21, 15) /\ target_ratios = DefaultTargetRatios) =>
              (DOMAIN analysis = {"rings"} /\ analysis["rings"].next_upload_count = 2)

\* C8 witness: the analysis of 10/10/10/10 against the default targets
C8_Witness ==
    /\ Analysed
    /\ counts = Snapshot(10, 10, 10, 10)
    /\ target_ratios = DefaultTargetRatios
    /\ "rings" \in DOMAIN analysis

\* C9: the result is the no-data error, and never an empty success mapping, whenever the counts
\* sum to zero (all zero, or the mapping empty), and it is the error in that case only.
C9_NoDataIffZeroTotal ==
    Analysed =>
        /\ SumValues(counts) = 0 => (analysis = NoDataError /\ DOMAIN analysis # {})
        /\ SumValues(counts) > 0 => "error" \notin DOMAIN analysis

\* C9 witness: the empty mapping was analysed
C9_Witness ==
    /\ Analysed
    /\ DOMAIN counts = {}
    /\ "error" \in DOMAIN analysis

\* C10: is_ratio_balanced(analysis, tolerance) is false if and only if at least one entry has
\* |current_percent - target_percent| > tolerance; it is true on an empty mapping.
C10_BalancedIffNoEntryOutOfTolerance ==
    BalanceChecked =>
        /\ (~is_balanced) <=>
              (\E c \in DOMAIN analysis :
                  Abs(analysis[c].current_percent - 10 * analysis[c].target_percent)
                      > 10 * tolerance)
        /\ DOMAIN analysis = {} => is_balanced

\* C10 witness: several entries, the first within tolerance and a later one out of it
C10_Witness ==
    /\ BalanceChecked
    /\ ~is_balanced
    /\ Cardinality(DOMAIN analysis) >= 2
    /\ Abs(analysis[Head(Keys(analysis))].current_percent
           - 10 * analysis[Head(Keys(analysis))].target_percent) <= 10 * tolerance

\* C11: for any analysis returned by calculate_required_uploads, get_recommendations returns
\* exactly one recommendation line per entry of the mapping (none is skipped).
C11_OneLinePerEntry ==
    (pc = "engine_done") => Len(recommendations) = Cardinality(DOMAIN analysis)

\* C15: a target category that has no key in current_counts counts as 0 and is no error:
\* with total > 0 and a positive target percent it yields an entry with current = 0 and
\* current_percent = 0.
C15_MissingKeyCountsAsZero ==
    (Analysed /\ SumValues(counts) > 0) =>
        /\ "error" \notin DOMAIN analysis
        /\ \A t \in (DOMAIN target_ratios) \ (DOMAIN counts) :
              target_ratios[t] > 0 =>
                  /\ t \in DOMAIN analysis
                  /\ analysis[t].current = 0
                  /\ analysis[t].current_percent = 0

\* C15 witness: the counts have keys for rings and pendants only, and earrings is returned
C15_Witness ==
    /\ Analysed
    /\ DOMAIN counts = {"rings", "pendants"}
    /\ SumValues(counts) > 0
    /\ target_ratios = DefaultTargetRatios
    /\ "earrings" \in DOMAIN analysis

(***************************************************************************)
(* Properties of the daily run (Spec)                                      *)
(***************************************************************************)
\* C3: in a run whose analysis is not the no-data error and for which is_ratio_balanced
\* returned false, get_recommendations is called and a notification is issued.
C3_ImbalanceIsNotified ==
    (pc = "done" /\ "is_ratio_balanced" \in calls /\ ~is_balanced) =>
        ("get_recommendations" \in calls /\ Len(alerts) >= 1)

\* C4: if the insert or the update of a run raises, the run is aborted: no ratio analysis
\* is performed and no notification is sent.
C4_FailedWriteAbortsRun ==
    (write_kind \in {"insert", "update"} /\ write_outcome # "ok") =>
        ("calculate_required_uploads" \notin calls /\ alerts = <<>>)

\* C12: if fetching from the catalog source fails (HTTP 401 or any other HTTP error, on any
\* page), the run performs no persistence write, no ratio analysis and no notification, and
\* the error leaves the run.
C12_FetchFailureAbortsRun ==
    (error \in {"PermissionError", "HTTPError"}) =>
        /\ pc = "failed"
        /\ store \in InitialStores
        /\ write_kind = "none"
        /\ calls \subseteq {"get_products"}
        /\ analysis = EmptyDict
        /\ alerts = <<>>

\* C12 witness: the request for a later page failed after products had been collected
C12_Witness ==
    /\ pc = "failed"
    /\ error = "HTTPError"
    /\ requests >= 2
    /\ all_products # <<>>

\* C13: whenever upsert_product_counts(date, counts) returns True, the store holds a record
\* for that date whose category fields equal counts, so a later read for that date returns
\* the last written counts.
C13_UpsertTrueMeansStored ==
    ("upsert_product_counts" \in calls /\ success) =>
        LET read == check_date_exists(store, Today, FALSE)
        IN  /\ read # <<>>
            /\ \A t \in ProductTypes : read[1][t] = counts[t]

\* C16: with a rel="next" link on every page but the last, and possibly a rel="previous" link
\* listed before it, the pagination loop ends having collected the products of each page
\* exactly once: no page is requested twice, and the loop leaves with all the pages.
C16_EachPageOnce ==
    /\ requests <= Len(catalog)
    /\ (pc # "get_products" /\ error \notin {"PermissionError", "HTTPError"})
          => all_products = CatalogProducts(catalog)

\* C17: is_ratio_balanced and get_recommendations are invoked on a non-error analysis only,
\* and when the counts sum to zero the run has no balance check, no recommendations and no
\* notification.
C17_BalanceOnlyOnAnalysis ==
    /\ (pc \in {"is_balanced", "recommend", "send_alert"}
        \/ "is_ratio_balanced" \in calls \/ "get_recommendations" \in calls) =>
          /\ "calculate_required_uploads" \in calls
          /\ "error" \notin DOMAIN analysis
          /\ SumValues(counts) > 0
    /\ SumValues(counts) = 0 =>
          /\ calls \cap {"is_ratio_balanced", "get_recommendations", "send_alert"} = {}
          /\ alerts = <<>>

\* C17 witness: a run over an empty catalog persisted its zero counts and ended at the
\* short-circuit
C17_Witness ==
    /\ pc = "done"
    /\ success
    /\ error = "none"
    /\ "summarize_and_export" \in calls
    /\ SumValues(counts) = 0
    /\ "is_ratio_balanced" \notin calls

\* C18: after upsert_product_counts calls by a single writer, transient failures of the
\* existence check or of the write included, the store holds at most one record per date.
C18_OneRecordPerDate ==
    \A i, j \in 1..Len(store) : store[i].Date = store[j].Date => i = j

\* C19: a run notifies at most once, and only after the counts were persisted, the analysis
\* was not the no-data error, is_ratio_balanced returned false and at least one entry has a
\* positive upload count; a balanced run sends no alert.
C19_AlertOnlyWhenDue ==
    /\ Len(alerts) <= 1
    /\ alerts # <<>> =>
          /\ success
          /\ \E i \in 1..Len(store) :
                store[i].Date = Today /\ \A t \in ProductTypes : store[i][t] = counts[t]
          /\ "error" \notin DOMAIN analysis
          /\ "is_ratio_balanced" \in calls
          /\ ~is_balanced
          /\ \E c \in DOMAIN analysis : analysis[c].next_upload_count > 0
    /\ is_balanced => alerts = <<>>

\* C14: the dashboard and the run apply the same shortfall computation: for every stored
\* snapshot, the categories the dashboard recommends uploading more of are the keys of
\* calculate_required_uploads for the same counts under the configured target ratios, and a
\* zero-total snapshot yields no ratio analysis in either.
C14_DashboardMatchesEngine ==
    (dashboard.status = "shown") =>
        LET uploads == {dashboard.recommendations[i].product_type :
                           i \in {j \in 1..Len(dashboard.recommendations) :
                                     dashboard.recommendations[j].kind = "upload"}}
        IN  /\ dashboard.total_products > 0 =>
                  uploads = {Title(k) : k \in DOMAIN calculate_required_uploads(
                                                     target_ratios, dashboard.snapshot)}
            /\ dashboard.total_products = 0 => dashboard.ratio_df = <<>>

====
